---------------------------- MODULE Spec2Model ----------------------------
(***************************************************************************)
(* A model of kirka-py's message-ingestion and command-dispatch pipeline:  *)
(* KirkaBot (src/bot.py), CommandContext (src/models/ctx.py), the          *)
(* CooldownController (src/utils/cooldown.py), CommandResponse             *)
(* (src/utils/response.py) and the listening loop of KirkaAPI              *)
(* (src/api/client.py).                                                    *)
(*                                                                         *)
(* Text is a sequence of one-character strings ("pieces" for fixed         *)
(* literals), so that startswith, split, lower, slicing, strip and the     *)
(* f-string concatenations are computed as the code computes them.         *)
(* Time is time.time() in whole ticks.                                     *)
(***************************************************************************)
EXTENDS Integers, Sequences, FiniteSets, TLC

VARIABLES
    commands,                 \* KirkaBot.commands: name -> descriptor
    nregs,                    \* number of descriptor instances created so far
    cooldowns,                \* CooldownController.cooldowns (an ExpiringDict)
    silent,                   \* KirkaBot.blacklists['silent']
    notified,                 \* KirkaBot.blacklists['notified']
    cmdbl,                    \* KirkaBot.blacklists['command'] (an ExpiringDict)
    discarded_first_message,  \* KirkaBot.discarded_first_message
    session,                  \* KirkaBot.session: "unset", "open", "closed"
    api_session,              \* KirkaAPI.session: "none", "open", "closed"
    websocket,                \* KirkaAPI.websocket: "none", "open", "closed"
    phase,                    \* where start() and the listening loop are
    now,                      \* time.time()
    nframes,                  \* frames handed to handle_message: 0, 1, 2 (= more)
    frame,                    \* the last frame handed to handle_message
    events,                   \* what the last frame's events did, in order
    lastOk,                   \* history: (author.id, command) -> its last handler return
    cdcall,                   \* the last direct call of the CooldownController
    watch,                    \* history: the (user, command) pair watched
    watchAt,                  \* history: time of the last update of the watched pair
    watchKeyAt,               \* history: time of the last update of the watched pair's key
    watchEvicted,             \* history: the watched key was popped for capacity since
    inbox,                    \* frames the socket has received, not yet taken by _listen
    running,                  \* the handle_message calls in progress, step by step
    laststep,                 \* history: the last step made, and of which event
    reglog,                   \* history: the @bot.command calls made, in order
    dropped                   \* history: a frame failed JSON decoding before the discard, none dispatched since

vars == <<commands, nregs, cooldowns, silent, notified, cmdbl,
          discarded_first_message, session, api_session, websocket, phase, now,
          nframes, frame, events, lastOk, cdcall, watch, watchAt, watchKeyAt,
          watchEvicted, inbox, running, laststep, reglog, dropped>>

---------------------------------------------------------------------------
(* Bounds of the model *)

\* time.time() runs from 0 to MaxTime
MaxTime == 3
\* the longest batch ('messages' list) of a type-3 frame
MaxBatch == 2
\* the number of @bot.command registrations
MaxRegs == 3
\* CooldownController: ExpiringDict(max_len=100, ...), scaled down
max_len == 2
\* CooldownController: ExpiringDict(..., max_age_seconds=5), scaled down
max_age == 2
\* blacklists['command']: ExpiringDict(max_len=1000, ...), scaled down
bl_max_len == 2
\* blacklists['command']: ExpiringDict(..., max_age_seconds=3600), scaled down
bl_max_age == 3
\* clock ticks per hundredth of a second, the unit round(remaining, 2) keeps
TicksPerCenti == 2
\* the frames the socket delivers in the step-by-step specification
MaxFrames == 3

---------------------------------------------------------------------------
(* Text *)

prefix == <<".">>

IsSpace(ch) == ch = " "

LowerChar(ch) ==
    CASE ch = "F" -> "f"
      [] ch = "O" -> "o"
      [] ch = "B" -> "b"
      [] ch = "A" -> "a"
      [] ch = "R" -> "r"
      [] OTHER -> ch

\* str.lower()
Lower(s) == [i \in DOMAIN s |-> LowerChar(s[i])]

\* str.startswith(p)
StartsWithLen(s, p) == Len(s) >= Len(p)
StartsWith(s, p) == Len(s) >= Len(p) /\ SubSeq(s, 1, Len(p)) = p

\* s[n:]
Drop(s, n) == SubSeq(s, n + 1, Len(s))

RECURSIVE LStrip(_)
LStrip(s) == IF s # <<>> /\ IsSpace(Head(s)) THEN LStrip(Tail(s)) ELSE s

RECURSIVE RStrip(_)
RStrip(s) ==
    IF s # <<>> /\ IsSpace(s[Len(s)]) THEN RStrip(SubSeq(s, 1, Len(s) - 1)) ELSE s

\* str.strip()
Strip(s) == RStrip(LStrip(s))

\* the first whitespace-delimited token of a text without leading whitespace
RECURSIVE Token(_)
Token(s) ==
    IF s = <<>> \/ IsSpace(Head(s)) THEN <<>> ELSE <<Head(s)>> \o Token(Tail(s))

\* str.split(): the whitespace-delimited tokens
RECURSIVE Split(_)
Split(s) ==
    LET t == LStrip(s) IN
    IF t = <<>> THEN <<>>
    ELSE <<Token(t)>> \o Split(Drop(t, Len(Token(t))))

---------------------------------------------------------------------------
(* expiringdict.ExpiringDict as the code uses it: an OrderedDict of         *)
(* key -> (value, set_time), here the sequence of its items in order.       *)

HasKey(d, k) == \E i \in DOMAIN d : d[i].key = k

Item(d, k) == d[CHOOSE i \in DOMAIN d : d[i].key = k]

\* del d[k]
DelKey(d, k) == SelectSeq(d, LAMBDA e : e.key # k)

\* key in d: an expired item is deleted and reported absent
EDContainsLe(d, k, t, age) ==
    IF ~HasKey(d, k) THEN [res |-> FALSE, d |-> d]
    ELSE IF t - Item(d, k).set_time <= age THEN [res |-> TRUE, d |-> d]
    ELSE [res |-> FALSE, d |-> DelKey(d, k)]
EDContains(d, k, t, age) ==
    IF ~HasKey(d, k) THEN [res |-> FALSE, d |-> d]
    ELSE IF t - Item(d, k).set_time < age THEN [res |-> TRUE, d |-> d]
    ELSE [res |-> FALSE, d |-> DelKey(d, k)]

\* d[k]: KeyError (ok = FALSE) when absent or expired; an expired item is deleted
EDGetItemForever(d, k, t, age) ==
    IF ~HasKey(d, k) THEN [ok |-> FALSE, val |-> 0, d |-> d]
    ELSE [ok |-> TRUE, val |-> Item(d, k).val, d |-> d]
EDGetItem(d, k, t, age) ==
    IF ~HasKey(d, k) THEN [ok |-> FALSE, val |-> 0, d |-> d]
    ELSE IF t - Item(d, k).set_time < age
         THEN [ok |-> TRUE, val |-> Item(d, k).val, d |-> d]
    ELSE [ok |-> FALSE, val |-> 0, d |-> DelKey(d, k)]

\* OrderedDict.popitem(last=False), its KeyError on an empty dict swallowed
PopOldestLast(d) == IF d = <<>> THEN d ELSE SubSeq(d, 1, Len(d) - 1)
PopOldest(d) == IF d = <<>> THEN d ELSE Tail(d)

\* OrderedDict.__setitem__: an existing key keeps its place, a new one goes last
ODSet(d, e) ==
    IF HasKey(d, e.key)
    THEN [i \in DOMAIN d |-> IF d[i].key = e.key THEN e ELSE d[i]]
    ELSE Append(d, e)

\* d[k] = v: a full dict first drops k itself (when present and unexpired) or
\* else its oldest item
EDSetItem(d, k, v, t, age, cap) ==
    LET c  == EDContains(d, k, t, age)
        d1 == IF Len(d) = cap
              THEN IF c.res THEN DelKey(c.d, k) ELSE PopOldest(c.d)
              ELSE d
    IN  ODSet(d1, [key |-> k, val |-> v, set_time |-> t])

---------------------------------------------------------------------------
(* CooldownController *)

\* f"{user_id}:{command}"
KeyOf(user_id, command) == user_id \o <<":">> \o command

\* check(user_id, command) at time t: [res, d]
check(d, user_id, command, t) == EDContains(d, KeyOf(user_id, command), t, max_age)

\* remaining(user_id, command) at time t: [ok, val, d]
remainingExtends(d, user_id, command, t) ==
    LET g == EDGetItem(d, KeyOf(user_id, command), t, max_age)
    IN  [ok |-> g.ok, val |-> g.val - t,
         d |-> IF g.ok THEN ODSet(g.d, [key |-> KeyOf(user_id, command),
                                        val |-> t + max_age, set_time |-> t])
               ELSE g.d]
remaining(d, user_id, command, t) ==
    LET g == EDGetItem(d, KeyOf(user_id, command), t, max_age)
    IN  [ok |-> g.ok, val |-> g.val - t, d |-> g.d]

\* update(user_id, command) at time t: the new table
updateSwapped(d, user_id, command, t) ==
    EDSetItem(d, KeyOf(command, user_id), t + max_age, t, max_age, max_len)
update(d, user_id, command, t) ==
    EDSetItem(d, KeyOf(user_id, command), t + max_age, t, max_age, max_len)

\* round(remaining, 2): ticks to the nearest hundredth, a tie to the even one
round2(v) ==
    LET q == v \div TicksPerCenti
        r == v % TicksPerCenti
    IN  IF 2 * r < TicksPerCenti THEN q
        ELSE IF 2 * r > TicksPerCenti THEN q + 1
        ELSE IF q % 2 = 0 THEN q ELSE q + 1

---------------------------------------------------------------------------
(* Command registry: KirkaBot.command *)

\* the items of a list
Range(s) == {s[i] : i \in DOMAIN s}

\* @bot.command(name, aliases) on func: one new cmd_info instance (id n),
\* stored under cmd_name and then under every alias
commandNameOnly(cmds, n, cmd_name, aliases, func) ==
    [k \in DOMAIN cmds \cup {cmd_name} |->
        IF k = cmd_name
        THEN [id |-> n, name |-> cmd_name, aliases |-> aliases, function |-> func]
        ELSE cmds[k]]
commandFirstWins(cmds, n, cmd_name, aliases, func) ==
    LET cmd_info == [id |-> n, name |-> cmd_name, aliases |-> aliases,
                     function |-> func]
        keys == {cmd_name} \cup Range(aliases)
    IN  [k \in DOMAIN cmds \cup keys |-> IF k \in DOMAIN cmds THEN cmds[k] ELSE cmd_info]
command(cmds, n, cmd_name, aliases, func) ==
    LET cmd_info == [id |-> n, name |-> cmd_name, aliases |-> aliases,
                     function |-> func]
        keys == {cmd_name} \cup Range(aliases)
    IN  [k \in DOMAIN cmds \cup keys |-> IF k \in keys THEN cmd_info ELSE cmds[k]]

\* the empty dict
EmptyDict == [k \in {} |-> 0]

---------------------------------------------------------------------------
(* CommandContext *)

\* CommandContext._parse_command_name
parse_command_name(content) ==
    IF ~StartsWith(content, prefix) THEN <<>>
    ELSE LET parts == Split(Drop(content, Len(prefix)))
         IN  IF parts # <<>> THEN Lower(parts[1]) ELSE <<>>

\* CommandContext._parse_args
parse_args(content) ==
    IF ~StartsWith(content, prefix) THEN <<>>
    ELSE LET parts == Split(Drop(content, Len(prefix)))
         IN  IF Len(parts) > 1 THEN Tail(parts) ELSE <<>>

\* CommandContext.__init__ on the normalized message
create_context(content, author) ==
    [content |-> content, author |-> author,
     command_name |-> parse_command_name(content), args |-> parse_args(content)]

\* the text CommandContext.reply hands to send_global_chat
replyPrefixed(ctx, response, raw) == ctx.author.short_id \o <<" -|- ">> \o response
reply(ctx, response, raw) ==
    IF raw THEN response ELSE ctx.author.short_id \o <<" -|- ">> \o response

\* KirkaAPI.send_global_chat(message) with the socket in state ws, its send
\* failing or not: the string returned; a failing send is caught, so nothing
\* is raised
send_global_chatRaises(ws, fails, message) ==
    IF ws = "none" \/ fails THEN [result |-> "Failed to send message", raised |-> TRUE]
    ELSE [result |-> "POSTED MESSAGE", raised |-> FALSE]
send_global_chat(ws, fails, message) ==
    IF ws = "none"
    THEN [result |-> "WebSocket is not open or not connected.", raised |-> FALSE]
    ELSE IF fails
    THEN [result |-> "Failed to send message", raised |-> FALSE]
    ELSE [result |-> "POSTED MESSAGE", raised |-> FALSE]

---------------------------------------------------------------------------
(* CommandResponse *)

\* CommandResponse().add_error(message).build(): one line, nothing to join
add_error_build(message) == <<"Error: ">> \o message

\* f"{str(e)}\n[fence]\n{traceback.format_exc()}[fence]", the code fence
\* of three backquotes written "[fence]"
ErrorBody(e) == e \o <<"\n", "[fence]", "\n", "Traceback: ">> \o e \o <<"[fence]">>

---------------------------------------------------------------------------
(* Dispatcher: one event *)

\* KirkaBot._check_blacklists: 1 silent, 2 notified, 3 per-command, 0 for False;
\* the lookup in the per-command ExpiringDict deletes an expired set
check_blacklistsNotifiedFirst(bl, user_id, command_name, t) ==
    IF user_id \in notified THEN [res |-> 2, bl |-> bl]
    ELSE IF user_id \in silent THEN [res |-> 1, bl |-> bl]
    ELSE LET g == EDGetItem(bl, command_name, t, bl_max_age)
         IN  IF g.ok /\ user_id \in g.val
             THEN [res |-> 3, bl |-> g.d]
             ELSE [res |-> 0, bl |-> g.d]
check_blacklistsCommandFirst(bl, user_id, command_name, t) ==
    LET g == EDGetItem(bl, command_name, t, bl_max_age)
    IN  IF user_id \in silent THEN [res |-> 1, bl |-> bl]
        ELSE IF g.ok /\ user_id \in g.val THEN [res |-> 3, bl |-> g.d]
        ELSE IF user_id \in notified THEN [res |-> 2, bl |-> g.d]
        ELSE [res |-> 0, bl |-> g.d]
check_blacklistsLowest(bl, user_id, command_name, t) ==
    LET g == EDGetItem(bl, command_name, t, bl_max_age)
    IN  IF g.ok /\ user_id \in g.val THEN [res |-> 3, bl |-> g.d]
        ELSE IF user_id \in notified THEN [res |-> 2, bl |-> g.d]
        ELSE IF user_id \in silent THEN [res |-> 1, bl |-> g.d]
        ELSE [res |-> 0, bl |-> g.d]
check_blacklists(bl, user_id, command_name, t) ==
    IF user_id \in silent THEN [res |-> 1, bl |-> bl]
    ELSE IF user_id \in notified THEN [res |-> 2, bl |-> bl]
    ELSE LET g == EDGetItem(bl, command_name, t, bl_max_age)
         IN  IF g.ok /\ user_id \in g.val
             THEN [res |-> 3, bl |-> g.d]
             ELSE [res |-> 0, bl |-> g.d]

\* what a registered function does when called with (ctx, args):
\* "pong" replies "pong" and returns, "boom" replies "boom!" raw and raises
HandlerRaises(func) == func = "boom"
HandlerSays(func) ==
    IF func = "boom" THEN [response |-> <<"boom!">>, raw |-> TRUE]
    ELSE [response |-> <<"pong">>, raw |-> FALSE]
HandlerError(func) == <<"boom">>

\* await ctx.reply(response, raw) in the event being built: the call, the text
\* handed to send_global_chat and, when there is a socket, what its send did
Say(m, ev, origin, ctx, response, raw) ==
    LET text == reply(ctx, response, raw)
        r == send_global_chat(m.ws, m.fails, text)
    IN  [ev EXCEPT !.replies = Append(@, [origin |-> origin, text |-> text]),
                   !.calls = Append(@, [response |-> response, raw |-> raw]),
                   !.sends = IF m.ws = "none" THEN @
                             ELSE Append(@, [text |-> text, result |-> r.result]),
                   !.sendraised = @ \/ r.raised]

\* the keys of a table
Keys(d) == {d[i].key : i \in DOMAIN d}

\* KirkaBot._execute_command, the except block: the error reply, nothing raised
on_errorPropagate(m, ctx, ev, e) == [m EXCEPT !.ev = ev, !.raised = TRUE]
on_errorUpdates(m, ctx, ev, e) ==
    [m EXCEPT !.cd = update(m.cd, ctx.author.id, ctx.command_name, m.t),
              !.ev = Say(m, ev, "dispatcher", ctx, add_error_build(ErrorBody(e)), FALSE)]
on_error(m, ctx, ev, e) ==
    [m EXCEPT !.ev = Say(m, ev, "dispatcher", ctx, add_error_build(ErrorBody(e)), FALSE)]

\* history: the pair's cooldown entry was written at time t
NoteOk(ok, pair, t) ==
    [p \in DOMAIN ok \cup {pair} |->
        IF p = pair THEN [at |-> t, evicted |-> FALSE] ELSE ok[p]]

\* history: the pairs whose entry an update of another key removed
NoteEvicted(ok, before, after) ==
    [p \in DOMAIN ok |->
        IF KeyOf(p[1], p[2]) \in Keys(before) \ Keys(after)
        THEN [ok[p] EXCEPT !.evicted = TRUE] ELSE ok[p]]

\* KirkaBot._execute_command; m is the bot's mutable state during the frame
\* and ev the record of this event
execute_command(m, ctx, ev) ==
    LET cmd_name == ctx.command_name
        id == ctx.author.id
    IN
    IF cmd_name \notin DOMAIN commands
    THEN [m EXCEPT !.ev = Say(m, [ev EXCEPT !.outcome = "not_found"], "dispatcher",
                              ctx, <<"Command not found.">>, FALSE)]
    ELSE
    LET cmd == commands[cmd_name]
        c == check(m.cd, id, cmd_name, m.t)
        pair == <<id, cmd_name>>
        tried == [ev EXCEPT !.prevOk = IF pair \in DOMAIN m.ok
                                       THEN <<m.ok[pair]>> ELSE <<>>]
    IN
    IF c.res
    THEN \* time.time() is read again by remaining: m.gap ticks later
         LET t1 == IF m.t + m.gap <= MaxTime THEN m.t + m.gap ELSE m.t
             r == remaining(c.d, id, cmd_name, t1)
             gated == [tried EXCEPT !.t1 = t1]
         IN  IF r.ok
             THEN [m EXCEPT !.cd = r.d, !.t = t1,
                            !.ev = Say(m, [gated EXCEPT !.outcome = "cooldown"], "dispatcher",
                                       ctx, <<"Command on cooldown. Wait ",
                                              ToString(round2(r.val)), "s">>, FALSE)]
             ELSE on_error([m EXCEPT !.cd = r.d, !.t = t1], ctx,
                           [gated EXCEPT !.outcome = "error"], <<"KeyError">>)
    ELSE
    LET args == Strip(Drop(ctx.content, Len(prefix \o cmd_name)))
        called == [tried EXCEPT !.invoked = <<[name |-> cmd_name, id |-> cmd.id,
                                               args |-> args]>>]
        \* the handler runs: its reply, then it returns or raises
        said == Say(m, called, "handler", ctx, HandlerSays(cmd.function).response,
                    HandlerSays(cmd.function).raw)
    IN
    IF said.sendraised
    THEN on_error([m EXCEPT !.cd = c.d], ctx,
                  [said EXCEPT !.outcome = "handler_error"], <<"send">>)
    ELSE IF HandlerRaises(cmd.function)
    THEN on_error([m EXCEPT !.cd = c.d], ctx,
                  [said EXCEPT !.outcome = "handler_error"],
                  HandlerError(cmd.function))
    ELSE LET after == update(c.d, id, cmd_name, m.t)
         IN  [m EXCEPT !.cd = after,
                       !.ok = NoteOk(NoteEvicted(m.ok, c.d, after), pair, m.t),
                       !.ev = [said EXCEPT !.outcome = "executed", !.updated = TRUE]]

\* ctx.command_name in self.commands
is_commandAlways(cmd_name) == TRUE
is_command(cmd_name) == cmd_name \in DOMAIN commands

\* KirkaBot._process_single_message: the event is appended to m.events, and
\* m.raised tells whether the call raised
process_single_message(m, msg) ==
    LET ev0 == [msg |-> msg, outcome |-> "malformed", replies |-> <<>>,
                invoked |-> <<>>, updated |-> FALSE, t0 |-> m.t, t1 |-> m.t,
                prevOk |-> <<>>, ok0 |-> m.ok,
                cd0 |-> m.cd, cd1 |-> m.cd, bl0 |-> m.bl,
                calls |-> <<>>, sends |-> <<>>, sendraised |-> FALSE]
        \* an exception out of a reply would leave the call like any other
        Done(mm) == [mm EXCEPT !.events = Append(@, [mm.ev EXCEPT !.cd1 = mm.cd]),
                               !.raised = @ \/ mm.ev.sendraised]
    IN
    \* message['user'] missing (KeyError), null (AttributeError), or a content
    \* without startswith (AttributeError): logged and raised again
    IF msg.user.kind # "dict" \/ msg.message.kind = "nontext"
    THEN Done([m EXCEPT !.ev = ev0, !.raised = TRUE])
    ELSE
    LET content == IF msg.message.kind = "missing" THEN <<>> ELSE msg.message.text
        author == [id |-> msg.user.id, short_id |-> msg.user.shortId]
        ctx == create_context(content, author)
    IN
    IF ~StartsWith(ctx.content, prefix)
    THEN Done([m EXCEPT !.ev = [ev0 EXCEPT !.outcome = "not_command"]])
    ELSE
    LET user_id == ctx.author.short_id
        b == check_blacklists(m.bl, user_id, ctx.command_name, m.t)
        getblacklist == b.res
        m1 == [m EXCEPT !.bl = b.bl]
    IN
    IF getblacklist = 1
    THEN Done([m1 EXCEPT !.ev = [ev0 EXCEPT !.outcome = "silent"]])
    ELSE IF is_command(ctx.command_name)
    THEN IF getblacklist = 2
         THEN Done([m1 EXCEPT !.ev = Say(m, [ev0 EXCEPT !.outcome = "notified"],
                                         "dispatcher", ctx, <<"Blacklisted">>, FALSE)])
         ELSE IF getblacklist = 3
         THEN Done([m1 EXCEPT !.ev = Say(m, [ev0 EXCEPT !.outcome = "command_blacklisted"],
                                         "dispatcher", ctx,
                                         <<"Blacklisted from using this command.">>,
                                         FALSE)])
         ELSE Done(execute_command(m1, ctx, ev0))
    ELSE Done([m1 EXCEPT !.ev = [ev0 EXCEPT !.outcome = "unregistered"]])

\* for bundled_msg in message['messages']: a raise leaves the loop
RECURSIVE bundle(_, _)
bundle(m, msgs) ==
    IF msgs = <<>> \/ m.raised THEN m
    ELSE bundle(process_single_message(m, Head(msgs)), Tail(msgs))

\* KirkaBot.handle_message, the try block; both except clauses log and
\* swallow what was raised
dispatch_frameKnownOnly(m, message) ==
    LET r == IF message.kind # "dict" THEN [m EXCEPT !.raised = TRUE]
             ELSE IF message.type = 3
             THEN IF message.has_messages THEN bundle(m, message.messages) ELSE m
             ELSE IF message.type = 2 THEN process_single_message(m, message.msg)
             ELSE m
    IN  [r EXCEPT !.raised = FALSE]
dispatch_frameRaises(m, message) ==
    IF message.kind # "dict" THEN [m EXCEPT !.raised = TRUE]
    ELSE IF message.type = 3
    THEN IF message.has_messages THEN bundle(m, message.messages) ELSE m
    ELSE process_single_message(m, message.msg)
dispatch_frame(m, message) ==
    LET r == IF message.kind # "dict" THEN [m EXCEPT !.raised = TRUE]
             ELSE IF message.type = 3
             THEN IF message.has_messages THEN bundle(m, message.messages) ELSE m
             ELSE process_single_message(m, message.msg)
    IN  [r EXCEPT !.raised = FALSE]

\* KirkaBot.handle_message
handle_messageNoDiscard(m, message) ==
    dispatch_frame([m EXCEPT !.discarded = TRUE], message)
handle_messageEveryOther(m, message) ==
    IF ~m.discarded THEN [m EXCEPT !.discarded = TRUE]
    ELSE [dispatch_frame(m, message) EXCEPT !.discarded = FALSE]
handle_message(m, message) ==
    IF ~m.discarded THEN [m EXCEPT !.discarded = TRUE]
    ELSE dispatch_frame(m, message)

---------------------------------------------------------------------------
(* Inputs *)

foo == <<"f", "o", "o">>
f == <<"f">>
bar == <<"b", "a", "r">>

\* message['user']: a dict, absent, or null
UserA == [kind |-> "dict", id |-> <<"A">>, shortId |-> <<"a">>]
UserB == [kind |-> "dict", id |-> <<"B">>, shortId |-> <<"b">>]
UserMissing == [kind |-> "missing", id |-> <<>>, shortId |-> <<>>]
UserNull == [kind |-> "null", id |-> <<>>, shortId |-> <<>>]

\* message['message']: a text, absent, or not a text
Text(c) == [kind |-> "text", text |-> c]
NoText == [kind |-> "missing", text |-> <<>>]
NonText == [kind |-> "nontext", text |-> <<>>]

Contents ==
    { prefix \o foo,                       \* ".foo"
      prefix \o f \o <<" ", "x">>,         \* ".f x"
      prefix \o bar,                       \* ".bar"
      prefix \o <<"z", "i", "p">>,         \* ".zip", not registered
      <<"!">> \o foo,                      \* "!foo", another prefix
      prefix \o <<" ">> \o foo \o <<" ", "x">>,  \* ". foo x"
      prefix \o <<"B">> }                  \* ".B"

Msg(u, c) == [user |-> u, message |-> c]

Msgs ==
    { Msg(UserA, Text(c)) : c \in Contents }
    \cup { Msg(UserB, Text(prefix \o foo)),
           Msg(UserMissing, Text(prefix \o foo)), Msg(UserNull, Text(prefix \o foo)),
           Msg(UserA, NonText), Msg(UserA, NoText) }

\* the sub-messages batches are made of
BatchMsgs ==
    { Msg(UserA, Text(prefix \o foo)), Msg(UserA, Text(prefix \o bar)),
      Msg(UserMissing, Text(prefix \o foo)) }

RECURSIVE SeqsUpTo(_, _)
SeqsUpTo(S, n) ==
    IF n = 0 THEN {<<>>}
    ELSE LET shorter == SeqsUpTo(S, n - 1)
         IN  shorter \cup {Append(q, x) : q \in shorter, x \in S}

\* decoded frames: type 2 (single), 3 (batch), 13 (another type), 0 (no type)
Frame(kind, type, has, msgs, msg) ==
    [kind |-> kind, type |-> type, has_messages |-> has, messages |-> msgs, msg |-> msg]

Frames ==
    { Frame("dict", 2, FALSE, <<>>, x) : x \in Msgs }
    \cup { Frame("dict", ty, FALSE, <<>>, x) :
             ty \in {13, 0},
             x \in {Msg(UserA, Text(prefix \o foo)), Msg(UserMissing, Text(prefix \o foo))} }
    \cup { Frame("dict", 3, TRUE, q, Msg(UserMissing, NoText)) :
             q \in SeqsUpTo(BatchMsgs, MaxBatch) }
    \cup { Frame("dict", 3, FALSE, <<>>, Msg(UserMissing, NoText)),
           Frame("nondict", 0, FALSE, <<>>, Msg(UserMissing, NoText)) }

NoFrame == Frame("none", 0, FALSE, <<>>, Msg(UserMissing, NoText))

\* the identifiers moderation blacklists: a short id in every tier, a long id
\* in the silent one
BlShortIds == {<<"a">>}
BlUsers == BlShortIds \cup {<<"A">>}
\* the command names moderation blacklists a user from, together: a
\* registered one and one that is not registered
BlCommands == {<<foo, <<"z", "i", "p">>>>}

---------------------------------------------------------------------------
(* The bot: start(), the listening loop, moderation, time *)

NoCall == [op |-> "none", user_id |-> <<>>, command |-> <<>>, res |-> FALSE, t |-> 0]

NoStep == [n |-> 0, step |-> "none"]

\* nothing of the step-by-step specification moves
StepsUnchanged == UNCHANGED <<inbox, running, laststep>>

\* nothing of the CooldownController's own specification moves
HistoryKept ==
    /\ UNCHANGED <<cdcall, watch, watchAt, watchKeyAt, watchEvicted, reglog>>
    /\ StepsUnchanged

CdHistoryUnchanged ==
    /\ HistoryKept
    /\ UNCHANGED dropped

NoWatch == <<<<>>, <<>>>>

\* the API client's connections are left as they are
NetUnchanged == UNCHANGED <<api_session, websocket>>

\* after KirkaBot(): KirkaBot.__init__ and CooldownController.__init__
Fresh ==
    /\ cooldowns = <<>>
    /\ silent = {}
    /\ notified = {}
    /\ cmdbl = <<>>
    /\ discarded_first_message = FALSE
    /\ session = "unset"
    /\ api_session = "none"
    /\ websocket = "none"
    /\ now = 0
    /\ nframes = 0
    /\ frame = NoFrame
    /\ events = <<>>
    /\ lastOk = EmptyDict
    /\ cdcall = NoCall
    /\ watchAt = -1
    /\ watchKeyAt = -1
    /\ watchEvicted = FALSE
    /\ inbox = <<>>
    /\ running = <<>>
    /\ laststep = NoStep
    /\ dropped = FALSE

\* the decorators the bot's module applies: foo with alias f, bar with alias B
Decorated == << [name |-> foo, aliases |-> <<f>>],
                [name |-> bar, aliases |-> <<<<"B">>>>] >>

\* after KirkaBot() and the module's @bot.command decorators: foo (alias f)
\* replies, bar (alias B, registered in upper case) raises
Init ==
    /\ Fresh
    /\ commands = command(command(EmptyDict, 1, foo, <<f>>, "pong"), 2, bar, <<<<"B">>>>, "boom")
    /\ nregs = 2
    /\ reglog = Decorated
    /\ phase = "new"
    /\ watch = NoWatch

\* KirkaBot.start: the bot's session, KirkaAPI.initialize (its session, the
\* connection), then the listening loop
Start ==
    /\ phase = "new"
    /\ session' = "open"
    /\ api_session' = "open"
    /\ websocket' = "open"
    /\ phase' = "listening"
    /\ UNCHANGED <<commands, nregs, cooldowns, silent, notified, cmdbl,
                   discarded_first_message, now, nframes, frame, events, lastOk>>
    /\ CdHistoryUnchanged

\* KirkaBot.start when websockets.connect raises: _connect_websocket logs and
\* raises again, start closes the bot's session and raises
StartFails ==
    /\ phase = "new"
    /\ session' = "closed"
    /\ api_session' = "open"
    /\ phase' = "ended"
    /\ UNCHANGED <<commands, nregs, cooldowns, silent, notified, cmdbl,
                   discarded_first_message, websocket, now, nframes, frame, events,
                   lastOk>>
    /\ CdHistoryUnchanged

\* KirkaBot.start cancelled (asyncio.CancelledError) while the loop waits for
\* a frame or start waits forever: the bot's session is closed, start returns
Cancel ==
    /\ phase \in {"listening", "ready"}
    /\ session' = "closed"
    /\ phase' = "ended"
    /\ UNCHANGED <<commands, nregs, cooldowns, silent, notified, cmdbl,
                   discarded_first_message, now, nframes, frame, events, lastOk>>
    /\ NetUnchanged
    /\ CdHistoryUnchanged

\* history: only the returns less than a window ago are kept
Recent(ok, t) == [p \in {q \in DOMAIN ok : t - ok[q].at < max_age} |-> ok[p]]

\* what a frame's handling meets: the clock ticks (or not) between the
\* cooldown check and the read of the remaining time, and the socket's sends
\* fail (or not)
Envs == { [gap |-> 0, fails |-> FALSE], [gap |-> 1, fails |-> FALSE],
          [gap |-> 0, fails |-> TRUE] }

\* KirkaAPI._listen, one frame that json.loads decodes: handle_message; an
\* exception out of it ends the loop
Recv(fr) ==
    /\ phase = "listening"
    /\ \E env \in Envs :
       \E r \in {handle_message([cd |-> cooldowns, bl |-> cmdbl, t |-> now,
                                 gap |-> env.gap, fails |-> env.fails,
                                 ws |-> websocket, ok |-> lastOk, ev |-> <<>>,
                                 events |-> <<>>, raised |-> FALSE,
                                 discarded |-> discarded_first_message], fr)} :
          /\ cooldowns' = r.cd
          /\ cmdbl' = r.bl
          /\ now' = r.t
          /\ lastOk' = Recent(r.ok, r.t)
          /\ events' = r.events
          /\ discarded_first_message' = r.discarded
          /\ phase' = IF r.raised THEN "ready" ELSE "handled"
    /\ nframes' = IF nframes < 2 THEN nframes + 1 ELSE 2
    /\ frame' = fr
    /\ dropped' = (dropped /\ ~discarded_first_message)
    /\ UNCHANGED <<commands, nregs, silent, notified, session>>
    /\ NetUnchanged
    /\ HistoryKept

\* KirkaAPI._listen: handle_message returned, the loop waits for the next frame
\* (the record of the frame just handled is dropped)
NextFrame ==
    /\ phase = "handled"
    /\ phase' = "listening"
    /\ frame' = NoFrame
    /\ events' = <<>>
    /\ UNCHANGED <<commands, nregs, cooldowns, silent, notified, cmdbl,
                   discarded_first_message, session, now, nframes, lastOk>>
    /\ NetUnchanged
    /\ CdHistoryUnchanged

\* KirkaAPI._listen, one frame that json.loads rejects: skipped
RecvBadJson ==
    /\ phase = "listening"
    /\ dropped' = (dropped \/ ~discarded_first_message)
    /\ UNCHANGED <<commands, nregs, cooldowns, silent, notified, cmdbl,
                   discarded_first_message, session, phase, now, nframes, frame,
                   events, lastOk>>
    /\ NetUnchanged
    /\ HistoryKept

\* KirkaAPI._listen, one frame on which json.loads raises something else than
\* JSONDecodeError (UnicodeDecodeError on a binary frame that is not UTF-8,
\* RecursionError on deep nesting): the outer except ends the loop, the socket
\* still open, and start() goes on to wait forever
RecvUndecodable ==
    /\ phase = "listening"
    /\ phase' = "ready"
    /\ UNCHANGED <<commands, nregs, cooldowns, silent, notified, cmdbl,
                   discarded_first_message, session, now, nframes, frame, events,
                   lastOk>>
    /\ NetUnchanged
    /\ CdHistoryUnchanged

\* KirkaAPI._listen: the socket closed, the loop ends and start() goes on to
\* wait forever
SocketClosed ==
    /\ phase = "listening"
    /\ phase' = "ready"
    /\ websocket' = "closed"
    /\ UNCHANGED <<commands, nregs, cooldowns, silent, notified, cmdbl,
                   discarded_first_message, session, api_session, now, nframes,
                   frame, events, lastOk>>
    /\ CdHistoryUnchanged

\* self.blacklists['command'][name] = {user} for every name of the list cs
RECURSIVE blacklist_commands(_, _, _, _)
blacklist_commands(bl, cs, u, t) ==
    IF cs = <<>> THEN bl
    ELSE blacklist_commands(EDSetItem(bl, Head(cs), {u}, t, bl_max_age, bl_max_len),
                            Tail(cs), u, t)

\* moderation (outside the repository) fills the blacklists
Blacklist(tier, u, c) ==
    /\ phase \in {"new", "listening"}
    /\ \/ tier = "silent" /\ phase = "new" /\ u \notin silent
          /\ silent' = silent \cup {u} /\ UNCHANGED <<notified, cmdbl>>
       \/ tier = "notified" /\ u \in BlShortIds /\ u \notin notified
          /\ notified' = notified \cup {u} /\ UNCHANGED <<silent, cmdbl>>
       \/ tier = "command" /\ u \in BlShortIds /\ phase = "new" /\ cmdbl = <<>>
          /\ cmdbl' = blacklist_commands(cmdbl, c, u, now)
          /\ UNCHANGED <<silent, notified>>
    /\ NetUnchanged
    /\ UNCHANGED <<commands, nregs, cooldowns, discarded_first_message, session,
                   phase, now, nframes, frame, events, lastOk>>
    /\ CdHistoryUnchanged

\* time passes
Tick ==
    /\ phase = "listening"
    /\ now < MaxTime
    /\ now' = now + 1
    /\ lastOk' = Recent(lastOk, now + 1)
    /\ UNCHANGED <<commands, nregs, cooldowns, silent, notified, cmdbl,
                   discarded_first_message, session, phase, nframes, frame, events>>
    /\ NetUnchanged
    /\ CdHistoryUnchanged

Next ==
    \/ Start
    \/ StartFails
    \/ Cancel
    \/ RecvUndecodable
    \/ \E fr \in Frames : Recv(fr)
    \/ NextFrame
    \/ RecvBadJson
    \/ SocketClosed
    \/ \E tier \in {"silent", "notified", "command"}, u \in BlUsers, c \in BlCommands :
          Blacklist(tier, u, c)
    \/ Tick

Spec == Init /\ [][Next]_vars

---------------------------------------------------------------------------
(* The CooldownController alone: any calls of update and check, at any times *)

\* ("A", "b:c") and ("A:b", "c") format to the same key
CdPairs ==
    { <<<<"A">>, <<"c">>>>, <<<<"A">>, <<"b", ":", "c">>>>,
      <<<<"A", ":", "b">>, <<"c">>>>, <<<<"B">>, <<"c">>>>,
      <<<<"B">>, <<"b", ":", "c">>>> }
WatchPairs == { <<<<"A">>, <<"b", ":", "c">>>>, <<<<"B">>, <<"c">>>> }

InitCooldown ==
    /\ Fresh
    /\ commands = EmptyDict
    /\ nregs = 0
    /\ reglog = <<>>
    /\ phase = "controller"
    /\ watch \in WatchPairs

BotUnchanged ==
    UNCHANGED <<commands, nregs, silent, notified, cmdbl, discarded_first_message,
                session, api_session, websocket, phase, nframes, frame, events,
                lastOk, inbox, running, laststep, reglog, dropped>>

\* cooldowns.update(user_id, command)
CdUpdate(u, c) ==
    /\ phase = "controller"
    /\ cooldowns' = update(cooldowns, u, c, now)
    /\ cdcall' = [op |-> "update", user_id |-> u, command |-> c,
                  res |-> TRUE, t |-> now]
    /\ watchAt' = IF <<u, c>> = watch THEN now ELSE watchAt
    /\ watchKeyAt' = IF KeyOf(u, c) = KeyOf(watch[1], watch[2])
                     THEN now ELSE watchKeyAt
    /\ watchEvicted' =
          IF KeyOf(u, c) = KeyOf(watch[1], watch[2]) THEN FALSE
          ELSE \/ watchEvicted
               \/ /\ KeyOf(watch[1], watch[2]) \in Keys(cooldowns)
                  /\ KeyOf(watch[1], watch[2]) \notin Keys(cooldowns')
    /\ UNCHANGED <<now, watch>>
    /\ BotUnchanged

\* cooldowns.check(user_id, command)
CdCheck(u, c) ==
    /\ phase = "controller"
    /\ \E r \in {check(cooldowns, u, c, now)} :
          /\ cooldowns' = r.d
          /\ cdcall' = [op |-> "check", user_id |-> u, command |-> c,
                        res |-> r.res, t |-> now]
    /\ UNCHANGED <<now, watch, watchAt, watchKeyAt, watchEvicted>>
    /\ BotUnchanged

\* time passes
CdTick ==
    /\ phase = "controller"
    /\ now < MaxTime
    /\ now' = now + 1
    /\ UNCHANGED <<cooldowns, cdcall, watch, watchAt, watchKeyAt, watchEvicted>>
    /\ BotUnchanged

NextCooldown ==
    \/ \E p \in CdPairs : CdUpdate(p[1], p[2])
    \/ \E p \in CdPairs : CdCheck(p[1], p[2])
    \/ CdTick

SpecCooldown == InitCooldown /\ [][NextCooldown]_vars

---------------------------------------------------------------------------
(* The command registry alone: any registrations *)

RegNames == {foo, f, bar}
RegAliases == {<<>>, <<f>>, <<foo>>, <<f, bar>>}

InitRegistry ==
    /\ Fresh
    /\ commands = EmptyDict
    /\ nregs = 0
    /\ reglog = <<>>
    /\ phase = "registering"
    /\ watch = NoWatch

\* @bot.command(name=cmd_name, aliases=aliases) applied to a function
Register(cmd_name, aliases) ==
    /\ phase = "registering"
    /\ nregs < MaxRegs
    /\ commands' = command(commands, nregs + 1, cmd_name, aliases, "pong")
    /\ nregs' = nregs + 1
    /\ reglog' = Append(reglog, [name |-> cmd_name, aliases |-> aliases])
    /\ UNCHANGED <<cooldowns, silent, notified, cmdbl, discarded_first_message,
                   session, phase, now, nframes, frame, events, lastOk>>
    /\ UNCHANGED <<cdcall, watch, watchAt, watchKeyAt, watchEvicted, dropped>>
    /\ NetUnchanged
    /\ StepsUnchanged

NextRegistry == \E n \in RegNames, al \in RegAliases : Register(n, al)

SpecRegistry == InitRegistry /\ [][NextRegistry]_vars

---------------------------------------------------------------------------
(* The listening loop and the dispatcher step by step: every await of      *)
(* _listen, handle_message, _process_single_message and _execute_command   *)
(* is a point where the event loop may run something else, and the socket  *)
(* goes on receiving frames meanwhile.                                      *)

StepMsgs == { Msg(UserA, Text(prefix \o foo)), Msg(UserA, Text(prefix \o bar)) }

\* the sub-messages of a frame (a single message is a frame of one)
StepFrames == SeqsUpTo(StepMsgs, MaxBatch) \ {<<>>}

\* events numbered in arrival order: frame by frame, then by place in the batch
EvNo(fno, idx) == fno * (MaxBatch + 1) + idx

\* _listen awaits _process_message before it asks the socket for the next frame
LoopSpawns(r) == TRUE
LoopAwaits(r) == r = <<>>

InitSteps ==
    /\ Fresh
    /\ commands = command(command(EmptyDict, 1, foo, <<f>>, "pong"), 2, bar, <<<<"B">>>>, "boom")
    /\ nregs = 2
    /\ reglog = Decorated
    /\ phase = "stepping"
    /\ watch = NoWatch

StepFixed ==
    UNCHANGED <<commands, nregs, silent, notified, session, api_session, websocket,
                phase, frame, events, lastOk, cdcall, watch, watchAt, watchKeyAt,
                watchEvicted, reglog, dropped>>

\* the socket receives a frame and queues it
Arrive(fr) ==
    /\ phase = "stepping"
    /\ nframes + Len(inbox) < MaxFrames
    /\ inbox' = Append(inbox, fr)
    /\ UNCHANGED <<cooldowns, cmdbl, discarded_first_message, now, nframes, running,
                   laststep>>
    /\ StepFixed

\* _listen: the next frame is decoded and handed to handle_message, which
\* discards the first one
Take ==
    /\ phase = "stepping"
    /\ inbox # <<>>
    /\ LoopAwaits(running)
    /\ inbox' = Tail(inbox)
    /\ nframes' = nframes + 1
    /\ discarded_first_message' = TRUE
    /\ running' = IF ~discarded_first_message THEN running
                  ELSE Append(running, [fno |-> nframes + 1, idx |-> 1,
                                        msgs |-> Head(inbox), pc |-> "classify"])
    /\ UNCHANGED <<cooldowns, cmdbl, now, laststep>>
    /\ StepFixed

\* the context of the sub-message a call is at
CtxOf(task) ==
    create_context(task.msgs[task.idx].message.text,
                   [id |-> task.msgs[task.idx].user.id,
                    short_id |-> task.msgs[task.idx].user.shortId])

\* the call goes on at pc
Goto(k, pc) == [running EXCEPT ![k].pc = pc]

\* the event is over: the next sub-message, or handle_message returns
Finish(k) ==
    IF running[k].idx < Len(running[k].msgs)
    THEN [running EXCEPT ![k].idx = @ + 1, ![k].pc = "classify"]
    ELSE [i \in 1..(Len(running) - 1) |-> IF i < k THEN running[i] ELSE running[i + 1]]

Did(k, step) == [n |-> EvNo(running[k].fno, running[k].idx), step |-> step]

\* _process_single_message up to the blacklist verdict
Classify(k) ==
    /\ k \in DOMAIN running /\ running[k].pc = "classify"
    /\ \E b \in {check_blacklists(cmdbl, CtxOf(running[k]).author.short_id,
                                   CtxOf(running[k]).command_name, now)} :
          /\ cmdbl' = b.bl
          /\ running' = IF b.res = 1 \/ CtxOf(running[k]).command_name \notin DOMAIN commands
                        THEN Finish(k)
                        ELSE IF b.res # 0 THEN Goto(k, "reply") ELSE Goto(k, "check")
    /\ laststep' = Did(k, "blacklist")
    /\ UNCHANGED <<cooldowns, discarded_first_message, now, nframes, inbox>>
    /\ StepFixed

\* _execute_command: self.cooldowns.check
Check(k) ==
    /\ k \in DOMAIN running /\ running[k].pc = "check"
    /\ \E c \in {check(cooldowns, CtxOf(running[k]).author.id,
                        CtxOf(running[k]).command_name, now)} :
          /\ cooldowns' = c.d
          /\ running' = IF c.res THEN Goto(k, "remaining") ELSE Goto(k, "invoke")
    /\ laststep' = Did(k, "check")
    /\ UNCHANGED <<cmdbl, discarded_first_message, now, nframes, inbox>>
    /\ StepFixed

\* _execute_command: self.cooldowns.remaining, then the cooldown reply or,
\* on KeyError, the error reply
Remaining(k) ==
    /\ k \in DOMAIN running /\ running[k].pc = "remaining"
    /\ cooldowns' = remaining(cooldowns, CtxOf(running[k]).author.id,
                              CtxOf(running[k]).command_name, now).d
    /\ running' = Goto(k, "reply")
    /\ laststep' = Did(k, "remaining")
    /\ UNCHANGED <<cmdbl, discarded_first_message, now, nframes, inbox>>
    /\ StepFixed

\* _execute_command: the handler is called and suspends on its first await
Invoke(k) ==
    /\ k \in DOMAIN running /\ running[k].pc = "invoke"
    /\ running' = Goto(k, "handler_await")
    /\ laststep' = Did(k, "handler")
    /\ UNCHANGED <<cooldowns, cmdbl, discarded_first_message, now, nframes, inbox>>
    /\ StepFixed

\* the handler is resumed and returns, or raises
Resume(k) ==
    /\ k \in DOMAIN running /\ running[k].pc = "handler_await"
    /\ running' = IF HandlerRaises(commands[CtxOf(running[k]).command_name].function)
                  THEN Goto(k, "reply") ELSE Goto(k, "update")
    /\ laststep' = Did(k, "handler_return")
    /\ UNCHANGED <<cooldowns, cmdbl, discarded_first_message, now, nframes, inbox>>
    /\ StepFixed

\* _execute_command: self.cooldowns.update
Update(k) ==
    /\ k \in DOMAIN running /\ running[k].pc = "update"
    /\ cooldowns' = update(cooldowns, CtxOf(running[k]).author.id,
                           CtxOf(running[k]).command_name, now)
    /\ running' = Finish(k)
    /\ laststep' = Did(k, "update")
    /\ UNCHANGED <<cmdbl, discarded_first_message, now, nframes, inbox>>
    /\ StepFixed

\* await ctx.reply(...): the dispatcher's reply is sent
Reply(k) ==
    /\ k \in DOMAIN running /\ running[k].pc = "reply"
    /\ running' = Finish(k)
    /\ laststep' = Did(k, "reply")
    /\ UNCHANGED <<cooldowns, cmdbl, discarded_first_message, now, nframes, inbox>>
    /\ StepFixed

\* time passes
StepTick ==
    /\ phase = "stepping"
    /\ now < MaxTime
    /\ now' = now + 1
    /\ UNCHANGED <<cooldowns, cmdbl, discarded_first_message, nframes, inbox,
                   running, laststep>>
    /\ StepFixed

NextSteps ==
    \/ \E fr \in StepFrames : Arrive(fr)
    \/ Take
    \/ \E k \in 1..MaxFrames :
          \/ Classify(k)
          \/ Check(k)
          \/ Remaining(k)
          \/ Invoke(k)
          \/ Resume(k)
          \/ Update(k)
          \/ Reply(k)
    \/ StepTick

SpecSteps == InitSteps /\ [][NextSteps]_vars

---------------------------------------------------------------------------
(* What the claims say of an event *)

WellFormed(msg) == msg.user.kind = "dict" /\ msg.message.kind # "nontext"

ContentOf(msg) == IF msg.message.kind = "text" THEN msg.message.text ELSE <<>>

HasPrefix(c) == Len(c) >= Len(prefix) /\ \A i \in 1..Len(prefix) : c[i] = prefix[i]

\* a well-formed prefixed message whose command name is registered
NamesRegistered(msg) ==
    /\ WellFormed(msg)
    /\ HasPrefix(ContentOf(msg))
    /\ parse_command_name(ContentOf(msg)) \in DOMAIN commands

DispatcherReplies(ev) == SelectSeq(ev.replies, LAMBDA r : r.origin = "dispatcher")

IsBatch(fr) == fr.kind = "dict" /\ fr.type = 3 /\ fr.has_messages

\* the identifier is in the unexpired per-command set stored for the event's
\* command name when the event begins
InCommandSet(ev, ident) ==
    \E j \in DOMAIN ev.bl0 :
        /\ ev.bl0[j].key = parse_command_name(ContentOf(ev.msg))
        /\ ident \in ev.bl0[j].val
        /\ ev.t0 - ev.bl0[j].set_time < bl_max_age

\* the cooldown check was reached
Gated(ev) == ev.outcome \in {"cooldown", "error", "handler_error", "executed"}

OneReply(ev, text) ==
    ev.replies = << [origin |-> "dispatcher",
                     text |-> ev.msg.user.shortId \o <<" -|- ">> \o text] >>

---------------------------------------------------------------------------
(* C1..C10 *)

\* C1: a batch frame of N sub-messages yields N dispatched events in batch
\* order, whatever happened to the earlier sub-messages (malformed or raised).
C1_BatchDispatchesEach ==
    (phase = "handled" /\ nframes = 2 /\ IsBatch(frame)) =>
        /\ Len(events) = Len(frame.messages)
        /\ \A i \in DOMAIN events : events[i].msg = frame.messages[i]

\* C2: a handler that raises is caught in the dispatcher: exactly one error
\* reply with the failure message and the traceback, handle_message returns
\* normally (the loop goes on), and the next sub-message is dispatched.
C2_HandlerErrorCaught ==
    \A i \in DOMAIN events :
        events[i].outcome = "handler_error" =>
            /\ Len(DispatcherReplies(events[i])) = 1
            /\ "Error: " \in Range(DispatcherReplies(events[i])[1].text)
            /\ "boom" \in Range(DispatcherReplies(events[i])[1].text)
            /\ "Traceback: " \in Range(DispatcherReplies(events[i])[1].text)
            /\ phase = "handled"
            /\ (IsBatch(frame) /\ i < Len(frame.messages)) => Len(events) > i

C2_Witness ==
    \E i \in DOMAIN events :
        /\ events[i].outcome = "handler_error"
        /\ i < Len(events)
        /\ events[i + 1].outcome = "executed"

\* C3 as claimed: after update(U,C), check(U,C) is true strictly before the
\* window has elapsed since that update and false afterwards, whatever updates
\* of other pairs happen in between.
C3_CheckFollowsOwnUpdate ==
    (cdcall.op = "check" /\ <<cdcall.user_id, cdcall.command>> = watch /\ watchAt >= 0) =>
        (cdcall.res <=> cdcall.t - watchAt < max_age)

\* C3 as amended: check(U,C) is true exactly while the window has not elapsed
\* since the last update of the key "U:C" and no update of another key has
\* removed the entry since.
C3_CheckUntilExpiryOrEviction ==
    (cdcall.op = "check" /\ <<cdcall.user_id, cdcall.command>> = watch /\ watchAt >= 0) =>
        (cdcall.res <=> (cdcall.t - watchKeyAt < max_age /\ ~watchEvicted))

C3_Witness ==
    /\ cdcall.op = "check"
    /\ <<cdcall.user_id, cdcall.command>> = watch
    /\ watchAt >= 0
    /\ cdcall.res
    /\ cdcall.t > watchAt
    /\ Len(cooldowns) = max_len

\* C4: the cooldown table never holds more than max_len distinct keys, and an
\* update for a new key when it is full removes the least recently inserted
\* key, expired or not, and nothing else.
C4_CapacityEvictsOldest ==
    /\ Len(cooldowns) <= max_len
    /\ Cardinality(Keys(cooldowns)) = Len(cooldowns)
    /\ \A i \in DOMAIN events :
          LET ev == events[i] IN
          (ev.updated /\ Len(ev.cd0) = max_len
             /\ KeyOf(ev.msg.user.id, ev.invoked[1].name) \notin Keys(ev.cd0)) =>
              \E j \in DOMAIN ev.cd0 :
                  /\ \A x \in DOMAIN ev.cd0 : ev.cd0[j].set_time <= ev.cd0[x].set_time
                  /\ Keys(ev.cd1) = (Keys(ev.cd0) \ {ev.cd0[j].key})
                                        \cup {KeyOf(ev.msg.user.id, ev.invoked[1].name)}
                  /\ \A x \in DOMAIN ev.cd0 \ {j} : Item(ev.cd1, ev.cd0[x].key) = ev.cd0[x]

C4_Witness ==
    \E i \in DOMAIN events :
        /\ events[i].updated
        /\ Len(events[i].cd0) = max_len
        /\ KeyOf(events[i].msg.user.id, events[i].invoked[1].name) \notin Keys(events[i].cd0)
        /\ events[i].t0 - events[i].cd0[1].set_time < max_age
        /\ events[i].cd0[1].set_time < events[i].cd0[2].set_time
        /\ ~HasKey(events[i].cd1, events[i].cd0[1].key)

\* C5 as claimed: a handler invocation for (author.id, command) never comes
\* less than a window after a normal return of the handler for the same pair.
C5_InvocationsAWindowApart ==
    \A i \in DOMAIN events :
        (events[i].invoked # <<>> /\ events[i].prevOk # <<>>) =>
            events[i].t0 - events[i].prevOk[1].at >= max_age

\* C5 as amended: less than a window after a normal return for the same pair
\* the event is not executed, unless the pair's entry was evicted from the
\* full table in between.
C5_GatedUnlessEvicted ==
    \A i \in DOMAIN events :
        (/\ events[i].prevOk # <<>>
         /\ events[i].t0 - events[i].prevOk[1].at < max_age
         /\ ~events[i].prevOk[1].evicted) =>
            /\ events[i].invoked = <<>>
            /\ events[i].outcome \in {"cooldown", "error"}

C5_Witness ==
    \E i \in DOMAIN events :
        /\ events[i].prevOk # <<>>
        /\ events[i].t0 - events[i].prevOk[1].at < max_age
        /\ events[i].t0 > events[i].prevOk[1].at
        /\ ~events[i].prevOk[1].evicted
        /\ events[i].outcome = "cooldown"

\* C6 as claimed: after any registrations, every alias of every registered
\* descriptor resolves to the same instance as the descriptor's own name.
C6_AliasesResolveToCanonical ==
    \A k \in DOMAIN commands :
        \A al \in Range(commands[k].aliases) :
            /\ al \in DOMAIN commands
            /\ commands[k].name \in DOMAIN commands
            /\ commands[al].id = commands[commands[k].name].id

\* C6 as amended: an alias of a registered descriptor resolves to the same
\* instance as the descriptor's own name unless a later registration has
\* overwritten one of the two keys; for the latest registration all its keys
\* resolve to it.
C6_AliasesUntilOverwritten ==
    \A k \in DOMAIN commands :
        /\ commands[k].name \in DOMAIN commands
        /\ \A al \in Range(commands[k].aliases) :
              /\ al \in DOMAIN commands
              /\ \/ commands[al].id = commands[commands[k].name].id
                 \/ commands[al].id > commands[k].id
                 \/ commands[commands[k].name].id > commands[k].id
              /\ commands[k].id = nregs =>
                    /\ commands[al].id = nregs
                    /\ commands[commands[k].name].id = nregs

C6_Witness ==
    \E k \in DOMAIN commands :
        /\ commands[k].id < nregs
        /\ commands[k].aliases # <<>>
        /\ commands[commands[k].name].id = commands[k].id
        /\ \A al \in Range(commands[k].aliases) : commands[al].id = commands[k].id

\* C7: a message whose content does not start with the prefix causes no
\* handler invocation, no cooldown update and no reply, whoever the author.
C7_NoPrefixNoEffect ==
    \A i \in DOMAIN events :
        (WellFormed(events[i].msg) /\ ~HasPrefix(ContentOf(events[i].msg))) =>
            /\ events[i].outcome = "not_command"
            /\ events[i].replies = <<>>
            /\ events[i].invoked = <<>>
            /\ ~events[i].updated
            /\ events[i].cd1 = events[i].cd0

C7_Witness ==
    \E i \in DOMAIN events :
        /\ WellFormed(events[i].msg)
        /\ ContentOf(events[i].msg) # <<>>
        /\ ~HasPrefix(ContentOf(events[i].msg))
        /\ events[i].msg.user.shortId \in notified
        /\ events[i].cd0 # <<>>

\* C8: an author in the silent set who names a registered command gets no
\* reply and no handler invocation, also when in the other blacklists.
C8_SilentDrop ==
    \A i \in DOMAIN events :
        (NamesRegistered(events[i].msg) /\ events[i].msg.user.shortId \in silent) =>
            /\ events[i].replies = <<>>
            /\ events[i].invoked = <<>>

C8_Witness ==
    \E i \in DOMAIN events :
        /\ NamesRegistered(events[i].msg)
        /\ events[i].msg.user.shortId \in silent \cap notified
        /\ HasKey(cmdbl, parse_command_name(ContentOf(events[i].msg)))
        /\ events[i].msg.user.shortId
              \in Item(cmdbl, parse_command_name(ContentOf(events[i].msg))).val

\* C9: an author in the notified set and not in the silent set who names a
\* registered command gets exactly one reply, the fixed "Blacklisted", and no
\* handler invocation, whether or not a cooldown is active.
C9_NotifiedDrop ==
    \A i \in DOMAIN events :
        (/\ NamesRegistered(events[i].msg)
         /\ events[i].msg.user.shortId \in notified \ silent) =>
            /\ events[i].replies =
                  << [origin |-> "dispatcher",
                      text |-> events[i].msg.user.shortId \o <<" -|- ", "Blacklisted">>] >>
            /\ events[i].invoked = <<>>

C9_Witness ==
    \E i \in DOMAIN events :
        /\ NamesRegistered(events[i].msg)
        /\ events[i].msg.user.shortId \in notified \ silent
        /\ \E j \in DOMAIN events[i].cd0 :
              /\ events[i].cd0[j].key =
                    KeyOf(events[i].msg.user.id, parse_command_name(ContentOf(events[i].msg)))
              /\ events[i].t0 - events[i].cd0[j].set_time < max_age

\* C10: the first frame handed to handle_message is discarded whatever it
\* holds: no event, no handler invocation, no reply, no cooldown update.
C10_FirstFrameDiscarded ==
    nframes = 1 =>
        /\ events = <<>>
        /\ cooldowns = <<>>
        /\ lastOk = EmptyDict
        /\ discarded_first_message
        /\ phase \in {"handled", "listening", "ready", "ended"}

C10_Witness ==
    /\ nframes = 1
    /\ phase = "handled"
    /\ frame = Frame("dict", 2, FALSE, <<>>, Msg(UserA, Text(prefix \o foo)))
    /\ UserA.shortId \notin silent \cup notified

---------------------------------------------------------------------------
(* C11..C20 *)

\* C11: for a prefixed content the command name is the lower-cased first
\* whitespace-delimited token after the prefix, and the handler's argument text
\* is the content without the prefix and that token, whitespace-trimmed, also
\* when whitespace separates the prefix from the token.
C11_NameAndArgs ==
    \A i \in DOMAIN events :
        events[i].invoked # <<>> =>
            LET content == ContentOf(events[i].msg)
                rest == LStrip(Drop(content, Len(prefix)))
            IN  /\ events[i].invoked[1].name = Lower(Token(rest))
                /\ events[i].invoked[1].args = Strip(Drop(rest, Len(Token(rest))))

\* C12: a prefixed message whose command name is not registered, from a user in
\* none of the three blacklists, gets exactly one reply "Command not found."
\* and no handler invocation.
C12_UnregisteredReply ==
    \A i \in DOMAIN events :
        LET msg == events[i].msg
            ids == {msg.user.id, msg.user.shortId}
        IN  (/\ WellFormed(msg)
             /\ HasPrefix(ContentOf(msg))
             /\ parse_command_name(ContentOf(msg)) \notin DOMAIN commands
             /\ ids \cap (silent \cup notified) = {}
             /\ \A j \in DOMAIN cmdbl : ids \cap cmdbl[j].val = {}) =>
                /\ events[i].replies =
                      << [origin |-> "dispatcher",
                          text |-> msg.user.shortId \o <<" -|- ", "Command not found.">>] >>
                /\ events[i].invoked = <<>>

\* C14: once start() has ended (cancelled, failed, or after the socket closed)
\* the WebSocket, the API client's session and the bot's session are released.
C14_ResourcesReleased ==
    phase = "ended" =>
        /\ session # "open"
        /\ api_session # "open"
        /\ websocket # "open"

\* C15: no exception escapes frame handling: whatever the decoded frame,
\* handle_message returns normally and the loop goes on to the next frame, and
\* a malformed unit causes no reply, no handler invocation, no cooldown change.
C15_NoExceptionEscapes ==
    /\ frame # NoFrame => phase = "handled"
    /\ \A i \in DOMAIN events :
          (~WellFormed(events[i].msg) \/ events[i].outcome = "malformed") =>
              /\ events[i].replies = <<>>
              /\ events[i].invoked = <<>>
              /\ ~events[i].updated
              /\ events[i].cd1 = events[i].cd0

C15_Witness ==
    /\ phase = "handled"
    /\ IsBatch(frame)
    /\ Len(events) = 2
    /\ events[1].outcome = "executed"
    /\ events[2].outcome = "malformed"

\* C16: the listening loop ends only when the socket is closed: no received
\* frame (undecodable, malformed, or failing in a handler) ends it while the
\* socket is open.
C16_LoopEndsOnlyOnClose ==
    phase = "ready" => websocket = "closed"

\* C17: the classification is the highest-priority tier the user is in, in the
\* order silent, notified, per-command: silent and notified gives no reply,
\* notified and per-command gives "Blacklisted", and the cooldown check and the
\* handler run only for a user in no tier.
C17_ClassificationPriority ==
    \A i \in DOMAIN events :
        LET ev == events[i]
            u == ev.msg.user.shortId
            tier == IF u \in silent THEN 1
                    ELSE IF u \in notified THEN 2
                    ELSE IF InCommandSet(ev, u) THEN 3 ELSE 0
        IN  (WellFormed(ev.msg) /\ HasPrefix(ContentOf(ev.msg))) =>
                /\ tier = 1 => ev.outcome = "silent" /\ ev.replies = <<>>
                /\ (tier = 2 /\ NamesRegistered(ev.msg)) =>
                      ev.outcome = "notified" /\ OneReply(ev, <<"Blacklisted">>)
                /\ (tier = 3 /\ NamesRegistered(ev.msg)) =>
                      /\ ev.outcome = "command_blacklisted"
                      /\ OneReply(ev, <<"Blacklisted from using this command.">>)
                /\ (Gated(ev) \/ ev.invoked # <<>>) => tier = 0

C17_Witness ==
    \E i \in DOMAIN events :
        /\ NamesRegistered(events[i].msg)
        /\ events[i].msg.user.shortId \in notified \ silent
        /\ InCommandSet(events[i], events[i].msg.user.shortId)
        /\ OneReply(events[i], <<"Blacklisted">>)

\* C18: a registered command invoked by a non-blacklisted user while
\* check(author.id, command) is true gets exactly one reply "Command on
\* cooldown. Wait {remaining}s", the remaining time rounded to hundredths, and
\* the handler is not invoked.
C18_CooldownReply ==
    \A i \in DOMAIN events :
        LET ev == events[i]
            key == KeyOf(ev.msg.user.id, parse_command_name(ContentOf(ev.msg)))
        IN  (/\ Gated(ev)
             /\ HasKey(ev.cd0, key)
             /\ ev.t0 - Item(ev.cd0, key).set_time < max_age) =>
                /\ ev.invoked = <<>>
                /\ \E n \in 0..(max_age + 1) :
                      /\ 2 * n * TicksPerCenti - 2 * (Item(ev.cd0, key).val - ev.t1)
                            \in (0 - TicksPerCenti)..TicksPerCenti
                      /\ OneReply(ev, <<"Command on cooldown. Wait ", ToString(n), "s">>)

\* C19: both gates look the user up by author.id: a user whose long id is in a
\* blacklist set is dropped even when the short id is not in it, and the
\* cooldown is checked and written under author.id.
C19_GatesKeyOnAuthorId ==
    \A i \in DOMAIN events :
        LET ev == events[i] IN
        /\ (NamesRegistered(ev.msg) /\ ev.msg.user.id \in silent) =>
              /\ ev.outcome = "silent"
              /\ ev.replies = <<>>
              /\ ev.invoked = <<>>
        /\ ev.updated =>
              HasKey(ev.cd1, KeyOf(ev.msg.user.id, ev.invoked[1].name))

\* C20: command matching is case-insensitive: when the first token after the
\* prefix equals a registered name or alias N up to letter case, the
\* dispatcher resolves N's descriptor, in whatever case N was registered.
C20_CaseInsensitiveMatch ==
    \A i \in DOMAIN events :
        LET ev == events[i]
            token == Token(LStrip(Drop(ContentOf(ev.msg), Len(prefix))))
        IN  (WellFormed(ev.msg) /\ HasPrefix(ContentOf(ev.msg))) =>
                \A N \in DOMAIN commands :
                    Lower(N) = Lower(token) =>
                        /\ ev.outcome # "unregistered"
                        /\ ev.invoked # <<>> => ev.invoked[1].id = commands[N].id

\* C13: events are dispatched one at a time in arrival order: no step of a
\* later event happens while an earlier event is unfinished, also while a
\* handler or a reply is suspended on an await and later frames are waiting.
C13_OneAtATime ==
    /\ Len(running) <= 1
    /\ \A k \in DOMAIN running :
          EvNo(running[k].fno, running[k].idx) >= laststep.n

C13_Witness ==
    /\ Len(running) = 1
    /\ running[1].idx = 2
    /\ running[1].pc = "handler_await"
    /\ laststep.step = "handler"
    /\ inbox # <<>>

---------------------------------------------------------------------------
(* C21..C30 *)

\* what the event's author typed as the command name
TypedName(ev) == parse_command_name(ContentOf(ev.msg))

\* a per-command set stored for the typed name holds the identifier and its
\* window has passed when the event begins
InExpiredCommandSet(ev, ident) ==
    \E j \in DOMAIN ev.bl0 :
        /\ ev.bl0[j].key = TypedName(ev)
        /\ ident \in ev.bl0[j].val
        /\ ev.t0 - ev.bl0[j].set_time >= bl_max_age

\* C21: a user in the per-command set of a registered command, and in neither
\* other tier, who invokes it before the set's window has passed gets exactly
\* one reply "Blacklisted from using this command." and no handler invocation;
\* once the window has passed the invocation is dispatched normally.
C21_CommandSetUntilExpiry ==
    \A i \in DOMAIN events :
        (/\ NamesRegistered(events[i].msg)
         /\ events[i].msg.user.shortId \notin silent \cup notified) =>
            /\ InCommandSet(events[i], events[i].msg.user.shortId) =>
                  /\ events[i].outcome = "command_blacklisted"
                  /\ OneReply(events[i], <<"Blacklisted from using this command.">>)
                  /\ events[i].invoked = <<>>
            /\ InExpiredCommandSet(events[i], events[i].msg.user.shortId) =>
                  /\ Gated(events[i])
                  /\ events[i].outcome # "command_blacklisted"

C21_Witness ==
    \E i \in DOMAIN events :
        /\ NamesRegistered(events[i].msg)
        /\ events[i].msg.user.shortId \notin silent \cup notified
        /\ InExpiredCommandSet(events[i], events[i].msg.user.shortId)
        /\ events[i].outcome = "executed"
        /\ events[i].invoked # <<>>

\* C22: a notified- or command-blacklisted user who sends a prefixed message
\* with an unregistered command name gets no reply at all, no handler
\* invocation and no cooldown change.
C22_BlacklistedUnregisteredSilent ==
    \A i \in DOMAIN events :
        (/\ WellFormed(events[i].msg)
         /\ HasPrefix(ContentOf(events[i].msg))
         /\ TypedName(events[i]) \notin DOMAIN commands
         /\ \/ events[i].msg.user.shortId \in notified
            \/ InCommandSet(events[i], events[i].msg.user.shortId)) =>
            /\ events[i].replies = <<>>
            /\ events[i].sends = <<>>
            /\ events[i].invoked = <<>>
            /\ ~events[i].updated
            /\ events[i].cd1 = events[i].cd0

C22_Witness ==
    \E i \in DOMAIN events :
        /\ WellFormed(events[i].msg)
        /\ HasPrefix(ContentOf(events[i].msg))
        /\ TypedName(events[i]) \notin DOMAIN commands
        /\ events[i].msg.user.shortId \notin silent \cup notified
        /\ InCommandSet(events[i], events[i].msg.user.shortId)
        /\ events[i].cd0 # <<>>

\* the text the claim expects the k-th reply call of the event to send
ExpectedText(ev, k) ==
    IF ev.calls[k].raw THEN ev.calls[k].response
    ELSE ev.msg.user.shortId \o <<" -|- ">> \o ev.calls[k].response

\* C23: every reply(text, raw) performs exactly one outbound chat send; the
\* sent text is the author's short id, the separator " -|- " and then text
\* when raw is false, and exactly text when raw is true.
C23_ReplySendsOnce ==
    \A i \in DOMAIN events :
        /\ Len(events[i].sends) = Len(events[i].calls)
        /\ \A k \in DOMAIN events[i].calls :
              events[i].sends[k].text = ExpectedText(events[i], k)

C23_Witness ==
    \E i \in DOMAIN events :
        \E k, l \in DOMAIN events[i].calls :
            /\ events[i].calls[k].raw
            /\ ~events[i].calls[l].raw
            /\ Len(events[i].sends) = 2
            /\ events[i].sends[k].text = <<"boom!">>

\* the event had a reply whose send failed
SendFailed(ev) ==
    \E k \in DOMAIN ev.sends : ev.sends[k].result = "Failed to send message"

\* C24: a failure of the outbound send never raises into the dispatcher:
\* reply returns, the event finishes on its normal path (a handler whose reply
\* failed to send counts as successful and its cooldown is refreshed), and the
\* next event is processed.
C24_SendFailureContained ==
    /\ \A i \in DOMAIN events :
          SendFailed(events[i]) =>
             /\ ~events[i].sendraised
             /\ events[i].outcome = "executed" =>
                   /\ events[i].updated
                   /\ \E j \in DOMAIN events[i].cd1 :
                         /\ events[i].cd1[j].key =
                               KeyOf(events[i].msg.user.id, TypedName(events[i]))
                         /\ events[i].cd1[j].set_time = events[i].t0
             /\ (phase = "handled" /\ IsBatch(frame) /\ i < Len(frame.messages)
                 /\ WellFormed(frame.messages[i + 1])) =>
                   /\ Len(events) > i
                   /\ events[i + 1].msg = frame.messages[i + 1]
    /\ (\E i \in DOMAIN events : SendFailed(events[i])) => phase = "handled"

C24_Witness ==
    /\ phase = "handled"
    /\ Len(events) = 2
    /\ SendFailed(events[1]) /\ events[1].outcome = "executed" /\ events[1].updated
    /\ SendFailed(events[2])

\* the registrations that used the key as their name or as one of their aliases
UsedBy(k) ==
    {r \in DOMAIN reglog : k = reglog[r].name \/ k \in Range(reglog[r].aliases)}

\* the greatest number of a set of numbers
Latest(S) == CHOOSE r \in S : \A q \in S : q <= r

\* C25: registration is last-writer-wins per key: after any sequence of
\* register calls a key resolves to the descriptor of the most recent
\* registration that used it as name or alias (so a key a registration does
\* not name keeps its mapping), and only keys some registration used resolve.
C25_LastWriterWins ==
    /\ DOMAIN commands = {k \in RegNames \cup {<<"B">>} : UsedBy(k) # {}}
    /\ \A k \in DOMAIN commands :
          /\ commands[k].id = Latest(UsedBy(k))
          /\ commands[k].name = reglog[Latest(UsedBy(k))].name
          /\ commands[k].aliases = reglog[Latest(UsedBy(k))].aliases

C25_Witness ==
    /\ phase = "registering"
    /\ \E k \in DOMAIN commands :
          /\ Cardinality(UsedBy(k)) >= 2
          /\ \E j \in DOMAIN commands :
                /\ commands[j].id < commands[k].id
                /\ Cardinality(UsedBy(j)) = 1
                /\ k \in {reglog[commands[j].id].name}
                          \cup Range(reglog[commands[j].id].aliases)

\* the cooldown entry of the event's author and typed name is live when the
\* event begins
OnCooldown(ev) ==
    \E j \in DOMAIN ev.cd0 :
        /\ ev.cd0[j].key = KeyOf(ev.msg.user.id, TypedName(ev))
        /\ ev.t0 - ev.cd0[j].set_time < max_age

\* C26: a frame whose type is neither 2 nor 3 is attempted as one single
\* event: well-formed, with a prefixed registered command from a user no
\* blacklist holds, its handler runs as for a type-2 frame; when its
\* processing fails the failure is swallowed and nothing is dispatched.
C26_UnknownTypeAsSingle ==
    (phase = "handled" /\ nframes = 2 /\ frame.kind = "dict" /\ frame.type \notin {2, 3}) =>
        /\ Len(events) = 1
        /\ events[1].msg = frame.msg
        /\ (/\ NamesRegistered(frame.msg)
            /\ frame.msg.user.shortId \notin silent \cup notified
            /\ ~InCommandSet(events[1], frame.msg.user.shortId)) =>
              /\ Gated(events[1])
              /\ ~OnCooldown(events[1]) =>
                    /\ Len(events[1].invoked) = 1
                    /\ events[1].invoked[1].name = TypedName(events[1])
                    /\ events[1].outcome = "executed"
                    /\ events[1].updated
        /\ ~WellFormed(frame.msg) =>
              /\ events[1].outcome = "malformed"
              /\ events[1].replies = <<>>
              /\ events[1].invoked = <<>>
              /\ events[1].cd1 = events[1].cd0

C26_Witness ==
    /\ phase = "handled"
    /\ frame.kind = "dict" /\ frame.type = 13
    /\ Len(events) = 1
    /\ events[1].outcome = "executed"
    /\ events[1].invoked # <<>>

\* C27: whenever the dispatcher finds check(U, C) true, the following
\* remaining(U, C) succeeds with the stored expiry minus the current time, a
\* value above 0 and at most the window, also when time advances between the
\* two; the gated path never ends in the handler-error reply.
C27_RemainingSucceeds ==
    \A i \in DOMAIN events :
        (Gated(events[i]) /\ OnCooldown(events[i])) =>
            /\ events[i].outcome = "cooldown"
            /\ \E j \in DOMAIN events[i].cd0 :
                  /\ events[i].cd0[j].key =
                        KeyOf(events[i].msg.user.id, TypedName(events[i]))
                  /\ events[i].cd0[j].val - events[i].t1 > 0
                  /\ events[i].cd0[j].val - events[i].t1 <= max_age

\* the entries of a cooldown table that are unexpired at time t
LiveEntries(d, t) == {d[j] : j \in {x \in DOMAIN d : t - d[x].set_time < max_age}}

\* C28: a handler invocation that raises leaves the cooldown table unchanged,
\* no entry for (author.id, command) is created or refreshed, so the same
\* user's immediate re-invocation is not gated and the handler is invoked
\* again.
C28_RaisingHandlerNoCooldown ==
    \A i \in DOMAIN events :
        (events[i].outcome = "handler_error" /\ events[i].invoked # <<>>) =>
            /\ events[i].cd1 = events[i].cd0
            /\ ~events[i].updated
            /\ ~\E e \in LiveEntries(events[i].cd1, events[i].t1) :
                   e.key = KeyOf(events[i].msg.user.id, TypedName(events[i]))
            /\ (i < Len(events) /\ events[i + 1].msg = events[i].msg) =>
                   /\ events[i + 1].outcome = "handler_error"
                   /\ events[i + 1].invoked = events[i].invoked

C28_Witness ==
    /\ Len(events) = 2
    /\ events[1].outcome = "handler_error" /\ events[1].invoked # <<>>
    /\ events[2].msg = events[1].msg
    /\ events[2].invoked # <<>>
    /\ events[1].cd0 # <<>>

\* the event ended without executing a handler: not a command, unregistered
\* name, a blacklist drop, or gated by the cooldown
NotExecuting(ev) ==
    ev.outcome \in {"not_command", "unregistered", "silent", "notified",
                    "command_blacklisted", "cooldown"}

\* an event that does not execute a handler leaves the cooldown table as it
\* was, and an invocation a window or more after the pair's last normal
\* return (or with none before) is invoked
ExpiriesKept ==
    \A i \in DOMAIN events :
        /\ NotExecuting(events[i]) =>
              /\ events[i].cd1 = events[i].cd0
              /\ ~events[i].updated
              /\ events[i].invoked = <<>>
        /\ (/\ Gated(events[i])
            /\ \/ events[i].prevOk = <<>>
               \/ events[i].t0 - events[i].prevOk[1].at >= max_age) =>
              events[i].invoked # <<>>

\* C29 as claimed: an event that ends without executing a handler leaves
\* every cooldown expiry unchanged, repeated invocations during a cooldown do
\* not extend it, and the command is available again exactly one window after
\* the last normal return: not later and not earlier.
C29_AvailableExactlyAWindowLater ==
    /\ ExpiriesKept
    /\ \A i \in DOMAIN events :
          (/\ Gated(events[i])
           /\ events[i].prevOk # <<>>
           /\ events[i].t0 - events[i].prevOk[1].at < max_age) =>
              events[i].invoked = <<>>

\* C29 as amended: the same, the command being unavailable inside the window
\* only as long as its entry has not been evicted from the full table.
C29_AvailableAWindowLaterUnlessEvicted ==
    /\ ExpiriesKept
    /\ \A i \in DOMAIN events :
          (/\ Gated(events[i])
           /\ events[i].prevOk # <<>>
           /\ events[i].t0 - events[i].prevOk[1].at < max_age
           /\ ~events[i].prevOk[1].evicted) =>
              events[i].invoked = <<>>

C29_Witness ==
    /\ Len(events) = 2
    /\ events[1].outcome = "cooldown" /\ events[2].outcome = "cooldown"
    /\ events[2].msg = events[1].msg
    /\ events[1].t0 > events[1].prevOk[1].at
    /\ events[2].cd1 = events[1].cd0

\* the author's normal returns, inside the window when the event begins and
\* not evicted since, of the typed command's descriptor under another name
SameDescriptorRuns(ev) ==
    {p \in DOMAIN ev.ok0 :
        /\ p[1] = ev.msg.user.id
        /\ p[2] \in DOMAIN commands
        /\ p[2] # TypedName(ev)
        /\ commands[p[2]].id = commands[TypedName(ev)].id
        /\ ev.t0 - ev.ok0[p].at < max_age
        /\ ~ev.ok0[p].evicted}

\* C30: the cooldown applies per user and per command descriptor, whichever
\* name reaches it: after a user's successful execution through one name, an
\* invocation by the same user of the same descriptor through another of its
\* names inside the window is gated and its handler is not invoked.
C30_CooldownPerDescriptor ==
    \A i \in DOMAIN events :
        (/\ NamesRegistered(events[i].msg)
         /\ Gated(events[i])
         /\ SameDescriptorRuns(events[i]) # {}) =>
            /\ events[i].invoked = <<>>
            /\ events[i].outcome \in {"cooldown", "error"}

---------------------------------------------------------------------------
(* C31..C33 *)

\* the names under which an unexpired per-command set holding the identifier
\* is stored when the event begins, and which resolve to the descriptor the
\* event's typed name resolves to
BlacklistedNames(ev, ident) ==
    {k \in DOMAIN commands :
        /\ commands[k].id = commands[TypedName(ev)].id
        /\ \E j \in DOMAIN ev.bl0 :
              /\ ev.bl0[j].key = k
              /\ ident \in ev.bl0[j].val
              /\ ev.t0 - ev.bl0[j].set_time < bl_max_age}

\* C31: a user in the per-command blacklist set stored for a command is
\* dropped for every name of that command: invoking the same descriptor
\* through an alias never invokes the handler while the set is unexpired.
C31_BlacklistedForEveryName ==
    \A i \in DOMAIN events :
        (/\ NamesRegistered(events[i].msg)
         /\ BlacklistedNames(events[i], events[i].msg.user.shortId) # {}) =>
            events[i].invoked = <<>>

\* what the dispatcher's one reply of the event begins with, after the
\* author's short id and the separator
DispatcherSaid(ev, head) ==
    /\ Len(DispatcherReplies(ev)) = 1
    /\ Len(DispatcherReplies(ev)[1].text) >= 3
    /\ DispatcherReplies(ev)[1].text[3] = head

\* the event did nothing: no reply, no handler invocation, no cooldown update
NoEffect(ev) ==
    /\ ev.replies = <<>> /\ ev.invoked = <<>> /\ ~ev.updated /\ ev.cd1 = ev.cd0

\* the terminal outcomes an event shows, told by what the event did
Terminal(ev) ==
    {o \in {"not a command", "silent drop", "blacklist reply", "unregistered",
            "cooldown-gated", "executed", "handler error"} :
        \/ o = "not a command" /\ ~HasPrefix(ContentOf(ev.msg)) /\ NoEffect(ev)
        \/ o = "silent drop" /\ HasPrefix(ContentOf(ev.msg))
              /\ ev.msg.user.shortId \in silent /\ NoEffect(ev)
        \/ o = "unregistered" /\ HasPrefix(ContentOf(ev.msg))
              /\ ev.msg.user.shortId \notin silent
              /\ TypedName(ev) \notin DOMAIN commands /\ NoEffect(ev)
        \/ o = "blacklist reply" /\ ev.invoked = <<>> /\ ~ev.updated
              /\ ev.replies = DispatcherReplies(ev)
              /\ \/ DispatcherSaid(ev, "Blacklisted")
                 \/ DispatcherSaid(ev, "Blacklisted from using this command.")
        \/ o = "cooldown-gated" /\ ev.invoked = <<>> /\ ~ev.updated
              /\ ev.replies = DispatcherReplies(ev)
              /\ DispatcherSaid(ev, "Command on cooldown. Wait ")
        \/ o = "executed" /\ Len(ev.invoked) = 1 /\ ev.updated
              /\ DispatcherReplies(ev) = <<>>
        \/ o = "handler error" /\ Len(ev.invoked) = 1 /\ ~ev.updated
              /\ DispatcherSaid(ev, "Error: ")}

\* C32: every dispatched event ends in exactly one terminal outcome, with at
\* most one handler invocation and at most one dispatcher reply; a handler is
\* invoked only when the name is registered, no blacklist holds the user and
\* no cooldown is active, and the cooldown is updated only after a handler
\* returned normally.
C32_OneTerminalOutcome ==
    \A i \in DOMAIN events :
        WellFormed(events[i].msg) =>
            /\ Cardinality(Terminal(events[i])) = 1
            /\ Len(events[i].invoked) <= 1
            /\ Len(DispatcherReplies(events[i])) <= 1
            /\ events[i].invoked # <<>> =>
                  /\ NamesRegistered(events[i].msg)
                  /\ events[i].msg.user.shortId \notin silent \cup notified
                  /\ ~InCommandSet(events[i], events[i].msg.user.shortId)
                  /\ ~OnCooldown(events[i])
            /\ events[i].updated =>
                  /\ events[i].invoked # <<>>
                  /\ ~HandlerRaises(commands[TypedName(events[i])].function)
                  /\ DispatcherReplies(events[i]) = <<>>

\* the step hands a frame to handle_message
FrameHandled == phase = "listening" /\ phase' = "handled"

\* the step is a frame that failed JSON decoding
FrameDropped == ~dropped /\ dropped'

\* the frame handled by the step was gone through: a single message gave one
\* event, a batch one event per sub-message up to the first that raised
WasDispatched ==
    /\ (frame'.kind = "dict" /\ frame'.type # 3) =>
          /\ Len(events') = 1
          /\ events'[1].msg = frame'.msg
    /\ IsBatch(frame') =>
          /\ Len(events') <= Len(frame'.messages)
          /\ \A i \in DOMAIN events' : events'[i].msg = frame'.messages[i]
          /\ frame'.messages # <<>> => events' # <<>>
          /\ \A i \in DOMAIN events' :
                (i < Len(frame'.messages) /\ WellFormed(events'[i].msg)) =>
                    i < Len(events')

\* C33: over the bot's lifetime exactly one frame is discarded: the flag goes
\* from false to true on the first frame that reaches handle_message and
\* never returns to false, every later frame is normalized and dispatched,
\* and a frame that failed JSON decoding does not consume the discard.
C33_OneFrameDiscarded ==
    [][/\ discarded_first_message => discarded_first_message'
       /\ (~discarded_first_message /\ discarded_first_message') =>
             /\ FrameHandled
             /\ nframes = 0 /\ nframes' = 1
             /\ events' = <<>>
             /\ cooldowns' = cooldowns /\ cmdbl' = cmdbl /\ lastOk' = lastOk
       /\ FrameHandled =>
             IF discarded_first_message
             THEN WasDispatched /\ nframes' = 2
             ELSE discarded_first_message' /\ nframes = 0 /\ events' = <<>>
       /\ FrameDropped =>
             /\ discarded_first_message' = discarded_first_message
             /\ nframes' = nframes
             /\ events' = events
             /\ phase' = phase
       /\ (dropped' /\ nframes' = 0) => ~discarded_first_message'
      ]_vars

C33_Witness ==
    /\ dropped
    /\ nframes = 1
    /\ discarded_first_message
    /\ phase = "handled"
    /\ events = <<>>
    /\ frame = Frame("dict", 2, FALSE, <<>>, Msg(UserA, Text(prefix \o foo)))

===========================================================================
